---- MODULE Spec2Model ----
(***************************************************************************)
(* Model of the profile analysis engine of pprof-analyzer-mcp:             *)
(*   analyzer/flamegraph.go   BuildFlameGraphTree                          *)
(*   AnalyzeCPUProfile, analyzer/heap.go, analyzer/allocs.go   rankings    *)
(*   analyzer/memory_leak.go  DetectPotentialMemoryLeaks                   *)
(* and of the registry of interactive pprof sessions:                      *)
(*   process_manager.go       open_interactive_pprof,                      *)
(*                            disconnect_pprof_session, shutdown cleanup   *)
(* A profile is the decoded github.com/google/pprof/profile.Profile: the   *)
(* analyzers only read it.  Go maps are iterated in an unspecified order   *)
(* and sort.Slice is not stable, so every ranking is modelled as the set   *)
(* of orders the sort's comparison allows.                                 *)
(***************************************************************************)
EXTENDS Integers, Sequences, FiniteSets, TLC

VARIABLES p, oldP, res

\* State of the session registry of process_manager.go: the operating
\* system the server runs on, the map runningPprofs (its keys), the holder of
\* pprofMutex, the pprof processes started so far (the PID of a process is
\* its position), the temporary files on disk (named by the call that
\* downloaded them), the tool calls received so far with the position of
\* each handler, and the cleanup goroutine of setupSignalHandler.
VARIABLES goos, runningPprofs, pprofMutex, process, tempFile, handler, cleanupTask

pmVars == <<goos, runningPprofs, pprofMutex, process, tempFile, handler, cleanupTask>>

vars == <<p, oldP, res, pmVars>>

\* No mutex holder.
Unlocked == 0

\* The holder id of the cleanup goroutine (tool calls are numbered from 1).
CleanupHolder == -1

IdleCleanup == [pc |-> "waiting", taken |-> {}, pending |-> {}, retry |-> {}]

\* The server right after main has called setupSignalHandler, on system os.
ServerStarted(os) ==
    /\ goos = os
    /\ runningPprofs = {}
    /\ pprofMutex = Unlocked
    /\ process = <<>>
    /\ tempFile = {}
    /\ handler = <<>>
    /\ cleanupTask = IdleCleanup

(***************************************************************************)
(* Bounds of the model.                                                    *)
(***************************************************************************)
MaxSamples == 2

MaxLeakSamples == 3

(***************************************************************************)
(* Generic helpers.                                                        *)
(***************************************************************************)
Min(a, b) == IF a < b THEN a ELSE b

\* Go's integer division truncates toward zero.
GoDiv(a, b) ==
    IF (a >= 0) = (b > 0) THEN (IF a >= 0 THEN a ELSE -a) \div (IF b > 0 THEN b ELSE -b)
    ELSE -((IF a >= 0 THEN a ELSE -a) \div (IF b > 0 THEN b ELSE -b))

RECURSIVE SumSeq(_)
SumSeq(s) == IF s = <<>> THEN 0 ELSE Head(s) + SumSeq(Tail(s))

RECURSIVE SumOver(_, _)
\* Sum of f[x] over the elements x of the finite set S.
SumOver(S, f) ==
    IF S = {} THEN 0
    ELSE LET x == CHOOSE y \in S : TRUE IN f[x] + SumOver(S \ {x}, f)

\* The sequences that list every element of S exactly once.
Perms(S) ==
    {s \in [1..Cardinality(S) -> S] : \A i, j \in 1..Cardinality(S) : i # j => s[i] # s[j]}

RECURSIVE SortedDesc(_, _)
\* The orders in which sort.Slice with less(i, j) == val[i] > val[j] can
\* leave the elements of S, which it receives in any order: every order
\* that is non-increasing in val.
SortedDesc(S, val) ==
    IF S = {} THEN {<<>>}
    ELSE LET top == {x \in S : \A y \in S : val[x] >= val[y]}
         IN UNION {{<<x>> \o t : t \in SortedDesc(S \ {x}, val)} : x \in top}

RECURSIVE ChoiceFns(_)
\* The functions f with DOMAIN f = DOMAIN S and f[x] \in S[x].
ChoiceFns(S) ==
    IF DOMAIN S = {} THEN {<<>>}
    ELSE LET x == CHOOSE y \in DOMAIN S : TRUE
             rest == ChoiceFns([y \in DOMAIN S \ {x} |-> S[y]])
         IN {(x :> v) @@ f : v \in S[x], f \in rest}

Prefix(s, n) == SubSeq(s, 1, n)

(***************************************************************************)
(* The decoded profile (github.com/google/pprof/profile).                  *)
(***************************************************************************)
ValueType(t, u) == [Type |-> t, Unit |-> u]

\* A nil *profile.Function.  Function IDs of a valid profile are non-zero
\* and unsigned, so -1 stands for the nil pointer.
NilFunction == [ID |-> -1, Name |-> "", Filename |-> ""]

Function(id, name, file) == [ID |-> id, Name |-> name, Filename |-> file]

Line(fn, ln) == [Function |-> fn, Line |-> ln]

Location(addr, lines) == [Address |-> addr, Line |-> lines]

NoLabel == [k \in {} |-> <<>>]

Sample(values, stack, label) == [Value |-> values, Location |-> stack, Label |-> label]

Profile(types, samples) == [SampleType |-> types, Sample |-> samples]

NoProfile == Profile(<<>>, <<>>)

NoResult == [op |-> "none"]

\* for a loop `for i, st := range p.SampleType` that keeps the last match
LastIndex(types, t, u) ==
    LET hits == {i \in 1..Len(types) : types[i].Type = t /\ types[i].Unit = u}
    IN IF hits = {} THEN -1 ELSE (CHOOSE i \in hits : \A j \in hits : j <= i) - 1

\* for a loop over p.SampleType that breaks at the first match
FirstIndex(types, ts, u) ==
    LET hits == {i \in 1..Len(types) : types[i].Type \in ts /\ types[i].Unit = u}
    IN IF hits = {} THEN -1 ELSE (CHOOSE i \in hits : \A j \in hits : i <= j) - 1

\* a lookup that asks for the "object" label first
TypeLabelObjectFirst(s, dflt) ==
    IF DOMAIN s.Label = {} THEN dflt
    ELSE IF "object" \in DOMAIN s.Label /\ Len(s.Label["object"]) > 0 THEN s.Label["object"][1]
    ELSE IF "type" \in DOMAIN s.Label /\ Len(s.Label["type"]) > 0 THEN s.Label["type"][1]
    ELSE dflt

\* typeLabels[0] of the "type" label, else of the "object" label, else dflt
TypeLabel(s, dflt) ==
    IF DOMAIN s.Label = {} THEN dflt
    ELSE IF "type" \in DOMAIN s.Label /\ Len(s.Label["type"]) > 0 THEN s.Label["type"][1]
    ELSE IF "object" \in DOMAIN s.Label /\ Len(s.Label["object"]) > 0 THEN s.Label["object"][1]
    ELSE dflt

(***************************************************************************)
(* analyzer/flamegraph.go                                                  *)
(***************************************************************************)
\* fmt.Sprintf("unknown @ 0x%x", loc.Address) for the addresses of the model
UnknownName(addr) ==
    CASE addr = 0 -> "unknown @ 0x0"
      [] addr = 16 -> "unknown @ 0x10"
      [] OTHER -> "unknown @ 0x?"

IsMemoryProfile(types, valueIndex) ==
    /\ types[valueIndex + 1].Unit = "bytes"
    /\ types[valueIndex + 1].Type \in {"inuse_space", "alloc_space", "alloc", "allocation"}

FlameObjectsIndex(types, valueIndex) ==
    IF IsMemoryProfile(types, valueIndex)
    THEN FirstIndex(types, {"inuse_objects", "alloc_objects"}, "count")
    ELSE -1

\* A tempNode tree is a function from paths (the funcIDs from the root down)
\* to the fields of the tempNode at that position; <<>> is the root.
NewTempNode(fn, line, typeName) ==
    [Name |-> fn.Name, filePath |-> fn.Filename, lineNum |-> line.Line,
     selfValue |-> 0, objectCount |-> 0, objectType |-> typeName]

RootTempNode ==
    [Name |-> "root", filePath |-> "", lineNum |-> 0,
     selfValue |-> 0, objectCount |-> 0, objectType |-> ""]

RECURSIVE WalkStack(_, _, _, _, _, _, _, _)
\* The loop `for i := len(sample.Location) - 1; i >= 0; i--`; i here is the
\* 1-based position, so Go's i == 0 is i = 1.
WalkStack(tree, sample, i, currentNode, value, objCount, typeName, isMem) ==
    IF i = 0 THEN tree
    ELSE
      LET loc == sample.Location[i] IN
      IF Len(loc.Line) = 0
      THEN WalkStack(tree, sample, i - 1, currentNode, value, objCount, typeName, isMem)
      ELSE
        LET line == loc.Line[1]
            fn == IF line.Function = NilFunction
                  THEN Function(0, UnknownName(loc.Address), "")
                  ELSE line.Function
            childNode == Append(currentNode, fn.ID)
            t1 == IF childNode \in DOMAIN tree THEN tree
                  ELSE (childNode :> NewTempNode(fn, line, typeName)) @@ tree
            t2 == IF i = 1
                  THEN [t1 EXCEPT ![childNode] =
                          [@ EXCEPT !.selfValue = @ + value,
                                    !.objectCount =
                                        IF isMem /\ objCount > 0 THEN @ + objCount ELSE @,
                                    !.objectType =
                                        IF isMem /\ objCount > 0 /\ typeName # "" /\ @ = ""
                                        THEN typeName ELSE @]]
                  ELSE t1
        IN WalkStack(t2, sample, i - 1, childNode, value, objCount, typeName, isMem)

\* a loop that skips no sample
SkipNoSample(value) == FALSE

\* `if value == 0 { continue }`
SkipSample(value) == value = 0

RECURSIVE FoldSamples(_, _, _, _)
\* The loop `for _, sample := range p.Sample` of BuildFlameGraphTree over the
\* samples k..Len; acc carries root's tree and the two running totals.
FoldSamples(prof, valueIndex, k, acc) ==
    IF k > Len(prof.Sample) THEN acc
    ELSE
      LET sample == prof.Sample[k]
          value == sample.Value[valueIndex + 1]
          isMem == IsMemoryProfile(prof.SampleType, valueIndex)
          objectsIndex == FlameObjectsIndex(prof.SampleType, valueIndex)
          hasObj == isMem /\ objectsIndex >= 0 /\ Len(sample.Value) > objectsIndex
          objCount == IF hasObj THEN sample.Value[objectsIndex + 1] ELSE 0
          typeName == IF isMem THEN TypeLabel(sample, "") ELSE ""
      IN IF SkipSample(value) THEN FoldSamples(prof, valueIndex, k + 1, acc)
         ELSE FoldSamples(prof, valueIndex, k + 1,
                [tree |-> WalkStack(acc.tree, sample, Len(sample.Location), <<>>,
                                    value, objCount, typeName, isMem),
                 totalSampleValue |-> acc.totalSampleValue + value,
                 totalObjectCount |-> acc.totalObjectCount + objCount])

ChildPaths(tree, path) ==
    {q \in DOMAIN tree : Len(q) = Len(path) + 1 /\ Prefix(q, Len(path)) = path}

RECURSIVE TotalOf(_, _)
\* The value calculateTotalValueAndBuildTree returns for the tempNode at path.
TotalOf(tree, path) ==
    LET kids == ChildPaths(tree, path)
    IN tree[path].selfValue + SumOver(kids, [q \in kids |-> TotalOf(tree, q)])

\* `if childTotal > 0 { childrenNodes = append(childrenNodes, ...) }`
IncludeChild(childTotal) == childTotal > 0

\* The tempNodes whose FlameGraphNode can be reached from the returned root.
Returned(tree) ==
    {q \in DOMAIN tree : \A n \in 1..Len(q) : IncludeChild(TotalOf(tree, Prefix(q, n)))}

\* The FlameGraphNode of every returned tempNode; Children lists the funcID
\* keys of the children in the order children[ord] gives.
calculateTotalValueAndBuildTree(tree, isMem, ord) ==
    [q \in Returned(tree) |->
        [Name |-> tree[q].Name,
         Value |-> IF q = <<>> THEN 0 ELSE TotalOf(tree, q),
         SelfValue |-> tree[q].selfValue,
         ObjectCount |-> IF isMem /\ q # <<>> THEN tree[q].objectCount ELSE 0,
         AvgSize |-> IF isMem /\ q # <<>> /\ tree[q].objectCount > 0
                     THEN GoDiv(TotalOf(tree, q), tree[q].objectCount) ELSE 0,
         Type |-> IF isMem /\ q # <<>> THEN tree[q].objectType ELSE "",
         Children |-> ord[q]]]

\* the children left in the order in which tn.children was ranged over
childrenAsBuilt(tree) ==
    ChoiceFns([q \in Returned(tree) |->
        LET kids == ChildPaths(tree, q) \cap Returned(tree)
        IN Perms({c[Len(c)] : c \in kids})])

\* The orders sortChildrenByValue can give the children of every node.
sortChildrenByValue(tree) ==
    ChoiceFns([q \in Returned(tree) |->
        LET kids == ChildPaths(tree, q) \cap Returned(tree)
            keys == {c[Len(c)] : c \in kids}
        IN SortedDesc(keys, [k \in keys |-> TotalOf(tree, Append(q, k))])])

\* an index check that also rejects index 0
InvalidValueIndexOrZero(prof, valueIndex) ==
    valueIndex <= 0 \/ valueIndex >= Len(prof.SampleType)

\* `if valueIndex < 0 || valueIndex >= len(p.SampleType)`
InvalidValueIndex(prof, valueIndex) ==
    valueIndex < 0 \/ valueIndex >= Len(prof.SampleType)

\* the root object count set whatever its sign
RootObjectCountAnySign(acc, isMem) == IF isMem THEN acc.totalObjectCount ELSE 0

\* `if totalObjectCount > 0 { root.node.ObjectCount = totalObjectCount`
RootObjectCount(acc, isMem) ==
    IF isMem /\ acc.totalObjectCount > 0 THEN acc.totalObjectCount ELSE 0

\* the root value taken from the tree instead of from the first pass
RootValueFromTree(acc, tree) == TotalOf(tree, <<>>)

\* `root.node.Value = totalSampleValue`
RootValue(acc, tree) == acc.totalSampleValue

\* The results BuildFlameGraphTree can return: an error, or the tree as a
\* function from paths to FlameGraphNode fields.
BuildFlameGraphTree(prof, valueIndex) ==
    IF InvalidValueIndex(prof, valueIndex)
    THEN {[err |-> TRUE, tree |-> <<>>]}
    ELSE
      LET isMem == IsMemoryProfile(prof.SampleType, valueIndex)
          acc == FoldSamples(prof, valueIndex, 1,
                    [tree |-> (<<>> :> RootTempNode),
                     totalSampleValue |-> 0, totalObjectCount |-> 0])
      IN {[err |-> FALSE,
           tree |-> [calculateTotalValueAndBuildTree(acc.tree, isMem, ord) EXCEPT
                       ![<<>>] = [@ EXCEPT
                          !.Value = RootValue(acc, acc.tree),
                          !.ObjectCount = RootObjectCount(acc, isMem),
                          !.AvgSize =
                             IF isMem /\ acc.totalObjectCount > 0
                             THEN GoDiv(acc.totalSampleValue, acc.totalObjectCount)
                             ELSE 0]]]
          : ord \in sortChildrenByValue(acc.tree)}

(***************************************************************************)
(* AnalyzeCPUProfile, analyzer/heap.go (AnalyzeHeapProfile) and            *)
(* analyzer/allocs.go (AnalyzeAllocsProfile): value index, flat            *)
(* aggregation by the innermost frame, ranking and top-N truncation.       *)
(***************************************************************************)
RECURSIVE CPUIndexFrom(_, _, _)
\* The loop of AnalyzeCPUProfile over p.SampleType from position i on.
CPUIndexFrom(types, i, valueIndex) ==
    IF i > Len(types) THEN valueIndex
    ELSE LET st == types[i]
             hit == /\ st.Type \in {"cpu", "samples"}
                    /\ st.Unit \in {"nanoseconds", "count"}
                    /\ (valueIndex = -1 \/ st.Type = "cpu")
         IN CPUIndexFrom(types, i + 1, IF hit THEN i - 1 ELSE valueIndex)

\* the loop alone, without the defaults for a profile it finds no type in
CPUValueIndexNoDefault(types) == CPUIndexFrom(types, 1, -1)

\* -1 stands for the error return
CPUValueIndex(types) ==
    LET found == CPUIndexFrom(types, 1, -1)
    IN IF found # -1 THEN found
       ELSE IF Len(types) > 1 THEN 1
       ELSE IF Len(types) = 1 THEN 0
       ELSE -1

\* a last fallback to the first declared sample type
HeapValueIndexFirstFallback(types) ==
    LET inuse == LastIndex(types, "inuse_space", "bytes")
        alloc == FirstIndex(types, {"alloc_space"}, "bytes")
    IN IF inuse # -1 THEN inuse
       ELSE IF alloc # -1 THEN alloc
       ELSE IF Len(types) > 0 THEN 0
       ELSE -1

\* -1 stands for the error return
HeapValueIndex(types) ==
    LET inuse == LastIndex(types, "inuse_space", "bytes")
        alloc == FirstIndex(types, {"alloc_space"}, "bytes")
    IN IF inuse # -1 THEN inuse
       ELSE IF alloc # -1 THEN alloc
       ELSE IF Len(types) > 0 THEN Len(types) - 1
       ELSE -1

HeapObjectsIndex(types) ==
    LET inuse == LastIndex(types, "inuse_objects", "count")
    IN IF inuse # -1 THEN inuse ELSE FirstIndex(types, {"alloc_objects"}, "count")

\* a last fallback to the last declared sample type
AllocsValueIndexLastFallback(types) ==
    LET space == LastIndex(types, "alloc_space", "bytes")
        alloc == FirstIndex(types, {"alloc", "allocation"}, "bytes")
    IN IF space # -1 THEN space
       ELSE IF Len(types) > 0 /\ alloc # -1 THEN alloc
       ELSE IF Len(types) > 0 THEN Len(types) - 1
       ELSE -1

\* -1 stands for the error return
AllocsValueIndex(types) ==
    LET space == LastIndex(types, "alloc_space", "bytes")
        alloc == FirstIndex(types, {"alloc", "allocation"}, "bytes")
    IN IF space # -1 THEN space
       ELSE IF Len(types) > 0 /\ alloc # -1 THEN alloc
       ELSE IF Len(types) > 0 THEN 0
       ELSE -1

ValueIndexOf(op, types) ==
    CASE op = "cpu" -> CPUValueIndex(types)
      [] op = "heap" -> HeapValueIndex(types)
      [] op = "allocs" -> AllocsValueIndex(types)

\* `if len(s.Location) > 0 && len(s.Value) > valueIndex`
Counted(s, valueIndex) == Len(s.Location) > 0 /\ Len(s.Value) > valueIndex

\* The positions of the lines of the innermost location that have a function.
FunctionLines(s) ==
    {i \in 1..Len(s.Location[1].Line) : s.Location[1].Line[i].Function # NilFunction}

\* The line the loop `for _, line := range loc.Line` stops at.
TopLine(s) == s.Location[1].Line[CHOOSE i \in FunctionLines(s) : \A j \in FunctionLines(s) : i <= j]

Attributed(s, valueIndex) == Counted(s, valueIndex) /\ FunctionLines(s) # {}

FuncKey(s) == TopLine(s).Function.Name

\* fmt.Sprintf("%s at %s:%d", funcName, fileName, lineNum), kept as its
\* three arguments
SiteKey(s) == <<TopLine(s).Function.Name, TopLine(s).Function.Filename, TopLine(s).Line>>

TypeKey(s) == TypeLabel(s, "unknown")

\* a total that leaves out the samples without a function
TotalValueAttributedOnly(prof, valueIndex) ==
    LET idx == {k \in 1..Len(prof.Sample) :
                  /\ Len(prof.Sample[k].Location) > 0
                  /\ \E i \in 1..Len(prof.Sample[k].Location[1].Line) :
                        prof.Sample[k].Location[1].Line[i].Function # NilFunction}
    IN SumOver(idx, [k \in idx |-> prof.Sample[k].Value[valueIndex + 1]])

\* `totalValue += v` over the counted samples
TotalValue(prof, valueIndex) ==
    LET idx == {k \in 1..Len(prof.Sample) : Counted(prof.Sample[k], valueIndex)}
    IN SumOver(idx, [k \in idx |-> prof.Sample[k].Value[valueIndex + 1]])

\* The map a section accumulates: idx are the positions of the samples that
\* reach the `+=` of the section, key[k] the map key of sample k.
SumByKey(prof, valueIndex, idx, key) ==
    [x \in {key[k] : k \in idx} |->
        LET mine == {k \in idx : key[k] = x}
        IN SumOver(mine, [k \in mine |-> prof.Sample[k].Value[valueIndex + 1]])]

AttributedSamples(prof, valueIndex) ==
    {k \in 1..Len(prof.Sample) : Attributed(prof.Sample[k], valueIndex)}

CountedSamples(prof, valueIndex) ==
    {k \in 1..Len(prof.Sample) : Counted(prof.Sample[k], valueIndex)}

\* an aggregation that books a sample without function under the empty name
funcValueWithUnnamed(prof, valueIndex) ==
    LET idx == CountedSamples(prof, valueIndex)
    IN SumByKey(prof, valueIndex, idx,
                [k \in idx |-> IF Attributed(prof.Sample[k], valueIndex)
                               THEN FuncKey(prof.Sample[k]) ELSE ""])

\* funcValue / flatTime: by function name over the attributed samples
funcValue(prof, valueIndex) ==
    LET idx == AttributedSamples(prof, valueIndex)
    IN SumByKey(prof, valueIndex, idx, [k \in idx |-> FuncKey(prof.Sample[k])])

allocSiteValue(prof, valueIndex) ==
    LET idx == AttributedSamples(prof, valueIndex)
    IN SumByKey(prof, valueIndex, idx, [k \in idx |-> SiteKey(prof.Sample[k])])

typeValue(prof, valueIndex) ==
    LET idx == CountedSamples(prof, valueIndex)
    IN SumByKey(prof, valueIndex, idx, [k \in idx |-> TypeKey(prof.Sample[k])])

\* the stats slice left in the order the map was ranged over
Unsorted(m) == Perms(DOMAIN m)

\* The orders the stats slice can have after sort.Slice: the slice is filled
\* by ranging over the map and sorted by `stats[i].Flat > stats[j].Flat`.
Ranked(m) == SortedDesc(DOMAIN m, m)

\* the division made whatever the total
PercentUnguarded(v, totalValue) == <<v * 100, totalValue>>

\* `percent = (float64(v) / float64(totalValue)) * 100` when totalValue != 0,
\* kept as the fraction <<numerator, denominator>>; 0.0 otherwise
Percent(v, totalValue) == IF totalValue # 0 THEN <<v * 100, totalValue>> ELSE <<0, 1>>

\* The rows written by `for i := 0; i < n; i++ { stat := stats[i] ... }`
Rows(order, m, n, totalValue) ==
    [i \in 1..(IF n < 0 THEN 0 ELSE n) |->
        [Key |-> order[i], Value |-> m[order[i]], Percentage |-> Percent(m[order[i]], totalValue)]]

\* `limit := topN; if limit > len(funcStats) { limit = len(funcStats) }`
FuncLimit(topN, nFuncs) == Min(topN, nFuncs)

\* `allocSiteLimit := limit; if allocSiteLimit > len(allocSiteStats) {...}`
AllocSiteLimit(topN, nFuncs, nSites) == Min(FuncLimit(topN, nFuncs), nSites)

\* `typeLimit := limit; if typeLimit > len(typeStats) {...}`
TypeLimit(topN, nFuncs, nTypes) == Min(FuncLimit(topN, nFuncs), nTypes)

\* a switch whose default case writes the text report
ReportFormatsAndDefault == {"text", "markdown", "json", "xml", ""}

\* the formats of `case "text", "markdown":` and `case "json":`
ReportFormats == {"text", "markdown", "json"}

\* The ranked sections each analyzer writes.
SectionsOf(op) ==
    CASE op = "cpu" -> {"functions"}
      [] op = "allocs" -> {"functions", "allocationSites"}
      [] op = "heap" -> {"functions", "allocationSites", "types"}

FlatError(op, topN, format) ==
    [op |-> op, topN |-> topN, format |-> format, err |-> TRUE, valueIndex |-> -1,
     valueType |-> "", totalValue |-> 0, functions |-> <<>>, allocationSites |-> <<>>,
     types |-> <<>>, stacks |-> <<>>, flame |-> <<>>]

\* The results AnalyzeCPUProfile / AnalyzeHeapProfile / AnalyzeAllocsProfile
\* (op) can return for a profile: the report as its total and the rows of
\* its sections, or the flame graph, or an error.
AnalyzeProfile(op, prof, topN, format) ==
    LET valueIndex == ValueIndexOf(op, prof.SampleType) IN
    IF valueIndex = -1 THEN {FlatError(op, topN, format)}
    ELSE
      LET total == TotalValue(prof, valueIndex)
          fv == funcValue(prof, valueIndex)
          sv == allocSiteValue(prof, valueIndex)
          tv == typeValue(prof, valueIndex)
          nF == Cardinality(DOMAIN fv)
          nS == Cardinality(DOMAIN sv)
          nT == Cardinality(DOMAIN tv)
          ok == [FlatError(op, topN, format) EXCEPT
                    !.err = FALSE, !.valueIndex = valueIndex, !.totalValue = total]
      IN
      IF format \in ReportFormats
      THEN {[ok EXCEPT
               !.valueType = prof.SampleType[valueIndex + 1].Type,
               !.functions = Rows(fo, fv, FuncLimit(topN, nF), total),
               !.allocationSites =
                   IF "allocationSites" \in SectionsOf(op)
                   THEN Rows(so, sv, AllocSiteLimit(topN, nF, nS), total) ELSE <<>>,
               !.types =
                   IF "types" \in SectionsOf(op) /\ nT > 0 /\ to[1] # "unknown"
                   THEN Rows(to, tv, TypeLimit(topN, nF, nT), total) ELSE <<>>]
            : fo \in Ranked(fv), so \in Ranked(sv), to \in Ranked(tv)}
      ELSE IF format = "flamegraph-json"
      THEN {[ok EXCEPT !.flame = r.tree] : r \in BuildFlameGraphTree(prof, valueIndex)}
      ELSE {[FlatError(op, topN, format) EXCEPT !.valueIndex = valueIndex]}

(***************************************************************************)
(* analyzer/goroutine.go: AnalyzeGoroutineProfile.                         *)
(***************************************************************************)
\* `valueIndex := 0`, after the error return for a profile without sample
\* types; -1 stands for the error return
GoroutineValueIndex(types) == IF Len(types) = 0 THEN -1 ELSE 0

\* `if len(loc.Line) > 0 { line := loc.Line[0]; if line.Function != nil {`
HasFirstLineFunction(loc) == Len(loc.Line) > 0 /\ loc.Line[1].Function # NilFunction

\* stackKey: one "name;file;line|" per location that has a function on its
\* first line, kept as the sequence of <<name, file, line>>
StackKey(s) ==
    LET locs == SelectSeq(s.Location, HasFirstLineFunction)
    IN [i \in 1..Len(locs) |->
          <<locs[i].Line[1].Function.Name, locs[i].Line[1].Function.Filename,
            locs[i].Line[1].Line>>]

\* The results AnalyzeGoroutineProfile can return.
AnalyzeGoroutine(prof, topN, format) ==
    LET valueIndex == GoroutineValueIndex(prof.SampleType) IN
    IF valueIndex = -1 THEN {FlatError("goroutine", topN, format)}
    ELSE
      LET counted == {k \in 1..Len(prof.Sample) : Len(prof.Sample[k].Value) > valueIndex}
          keyed == {k \in counted : StackKey(prof.Sample[k]) # <<>>}
          totalGoroutines ==
              SumOver(counted, [k \in counted |-> prof.Sample[k].Value[valueIndex + 1]])
          stackCounts ==
              SumByKey(prof, valueIndex, keyed, [k \in keyed |-> StackKey(prof.Sample[k])])
          limit == Min(topN, Cardinality(DOMAIN stackCounts))
      IN
      IF format \in ReportFormats
      THEN {[FlatError("goroutine", topN, format) EXCEPT
               !.err = FALSE, !.valueIndex = valueIndex,
               !.valueType = prof.SampleType[valueIndex + 1].Type,
               !.totalValue = totalGoroutines,
               !.stacks = [i \in 1..(IF limit < 0 THEN 0 ELSE limit) |->
                             [Stack |-> order[i], Count |-> stackCounts[order[i]]]]]
            : order \in SortedDesc(DOMAIN stackCounts, stackCounts)}
      ELSE {[FlatError("goroutine", topN, format) EXCEPT !.valueIndex = valueIndex]}

(***************************************************************************)
(* analyzer/memory_leak.go: DetectPotentialMemoryLeaks.  threshold is a    *)
(* float64 fraction; the model carries it in percent (threshold * 100) as  *)
(* an integer and growth percentages as fractions <<numerator,             *)
(* denominator>>, which compare exactly as the float64 values of the code  *)
(* do for the values of the model.                                         *)
(***************************************************************************)
\* `threshold = 0.1`
DefaultThresholdPct == 10

\* `limit = 10`
DefaultLimit == 10

\* a threshold that is used as given
ThresholdAsGiven(thresholdPct) == thresholdPct

\* `if threshold <= 0 { threshold = 0.1 }`
EffectiveThresholdPct(thresholdPct) ==
    IF thresholdPct <= 0 THEN DefaultThresholdPct ELSE thresholdPct

\* a limit that is used as given
LimitAsGiven(limit) == limit

\* `if limit <= 0 { limit = 10 }`
EffectiveLimit(limit) == IF limit <= 0 THEN DefaultLimit ELSE limit

\* an index search that matches the type and takes any unit
LeakValueIndexAnyUnit(types) ==
    LET hits == {i \in 1..Len(types) : types[i].Type = "inuse_space"}
    IN IF hits = {} THEN -1 ELSE (CHOOSE i \in hits : \A j \in hits : j <= i) - 1

\* oldValueIndex / newValueIndex: the loop keeps the last match
LeakValueIndex(types) == LastIndex(types, "inuse_space", "bytes")

\* oldObjectsIndex / newObjectsIndex
LeakObjectsIndex(types) == LastIndex(types, "inuse_objects", "count")

\* the typeName of a sample in the two aggregation loops
LeakTypeName(s) == TypeLabel(s, "unknown")

\* oldMemory / newMemory: bytes by type over the counted samples
LeakMemory(prof, valueIndex) ==
    LET idx == CountedSamples(prof, valueIndex)
    IN SumByKey(prof, valueIndex, idx, [k \in idx |-> LeakTypeName(prof.Sample[k])])

\* oldObjects[typeName] / newObjects[typeName]; 0 for a missing key
LeakObjects(prof, valueIndex, objectsIndex, typeName) ==
    LET idx == {k \in CountedSamples(prof, valueIndex) :
                  /\ LeakTypeName(prof.Sample[k]) = typeName
                  /\ objectsIndex >= 0
                  /\ Len(prof.Sample[k].Value) > objectsIndex
                  /\ prof.Sample[k].Value[objectsIndex + 1] > 0}
    IN SumOver(idx, [k \in idx |-> prof.Sample[k].Value[objectsIndex + 1]])

\* growthPct / countGrowthPct
GrowthPct(oldVal, growth) ==
    IF oldVal > 0 THEN <<growth * 100, oldVal>>
    ELSE IF growth > 0 THEN <<100, 1>>
    ELSE <<0, 1>>

\* a filter that keeps only growth strictly above the threshold
StrictlyAboveThreshold(pct, thresholdPct) == pct[1] > thresholdPct * pct[2]

\* `if growthPct >= threshold*100`; pct[2] is positive
AboveThreshold(pct, thresholdPct) == pct[1] >= thresholdPct * pct[2]

\* The growthStat of one type of the new profile.
GrowthStat(typeName, oldMem, newMem, oldProf, newProf) ==
    LET oldVal == IF typeName \in DOMAIN oldMem THEN oldMem[typeName] ELSE 0
        newVal == newMem[typeName]
        oldCount == LeakObjects(oldProf, LeakValueIndex(oldProf.SampleType),
                                LeakObjectsIndex(oldProf.SampleType), typeName)
        newCount == LeakObjects(newProf, LeakValueIndex(newProf.SampleType),
                                LeakObjectsIndex(newProf.SampleType), typeName)
    IN [Type |-> typeName, OldValue |-> oldVal, NewValue |-> newVal,
        Growth |-> newVal - oldVal, GrowthPercent |-> GrowthPct(oldVal, newVal - oldVal),
        OldCount |-> oldCount, NewCount |-> newCount,
        CountGrowth |-> newCount - oldCount,
        CountGrowthPct |-> GrowthPct(oldCount, newCount - oldCount)]

\* `sort.Slice(growthStats, ... growthStats[i].Growth > growthStats[j].Growth)`
GrowthSorted(S, val) == SortedDesc(S, val)

\* `return "", fmt.Errorf(...)`
LeakError(thresholdPct, limit) ==
    [op |-> "leak", thresholdPct |-> thresholdPct, limit |-> limit, err |-> TRUE,
     report |-> "", growth |-> <<>>, growthStats |-> <<>>, rows |-> <<>>]

\* The results DetectPotentialMemoryLeaks can return: an error with the
\* empty report, or the report, which is either the line "No significant
\* memory growth detected." or the table of the first displayLimit
\* growthStats.  growth holds growth and growthPct of every type of
\* newMemory, growthStats the sorted slice.
DetectPotentialMemoryLeaks(oldProfile, newProfile, thresholdPct, limit) ==
    LET threshold == EffectiveThresholdPct(thresholdPct)
        lim == EffectiveLimit(limit)
        oldValueIndex == LeakValueIndex(oldProfile.SampleType)
        newValueIndex == LeakValueIndex(newProfile.SampleType)
    IN
    IF oldValueIndex = -1 \/ newValueIndex = -1 THEN {LeakError(thresholdPct, limit)}
    ELSE
      LET oldMemory == LeakMemory(oldProfile, oldValueIndex)
          newMemory == LeakMemory(newProfile, newValueIndex)
          stat == [t \in DOMAIN newMemory |->
                      GrowthStat(t, oldMemory, newMemory, oldProfile, newProfile)]
          kept == {t \in DOMAIN newMemory : AboveThreshold(stat[t].GrowthPercent, threshold)}
          displayLimit == Min(lim, Cardinality(kept))
      IN {[LeakError(thresholdPct, limit) EXCEPT
              !.err = FALSE,
              !.report = IF kept = {} THEN "none" ELSE "table",
              !.growth = [t \in DOMAIN newMemory |->
                            [Growth |-> stat[t].Growth,
                             GrowthPercent |-> stat[t].GrowthPercent]],
              !.growthStats = [i \in 1..Cardinality(kept) |-> stat[order[i]]],
              !.rows = [i \in 1..(IF displayLimit < 0 THEN 0 ELSE displayLimit) |->
                           stat[order[i]]]]
          : order \in GrowthSorted(kept, [t \in kept |-> stat[t].Growth])}

(***************************************************************************)
(* The profiles the model is run on.  Stacks are stored innermost first.   *)
(***************************************************************************)
fnMain == Function(1, "main", "main.go")

fnFoo == Function(2, "foo", "foo.go")

fnBar == Function(3, "bar", "bar.go")

locMain == Location(1, <<Line(fnMain, 10)>>)

locFoo == Location(2, <<Line(fnFoo, 20)>>)

locBar == Location(3, <<Line(fnBar, 30)>>)

\* a location without line information
locNoLine == Location(16, <<>>)

\* a location whose only line has no function
locNilFn == Location(16, <<Line(NilFunction, 0)>>)

CPUTypes == <<ValueType("samples", "count"), ValueType("cpu", "nanoseconds")>>

HeapTypes == <<ValueType("inuse_objects", "count"), ValueType("inuse_space", "bytes")>>

FlameStacks ==
    {<<>>, <<locMain>>, <<locFoo, locMain>>, <<locBar, locFoo, locMain>>,
     <<locNoLine, locMain>>, <<locNilFn, locMain>>}

FlameValues == {<<1, 2>>, <<0, 1>>, <<2, 0>>, <<1, -1>>, <<-1, -2>>}

FlameSamples ==
    {Sample(v, st, NoLabel) : v \in FlameValues, st \in FlameStacks}
    \cup {Sample(<<1, 2>>, <<locFoo, locMain>>, [k \in {"type"} |-> <<"T1", "T2">>]),
          Sample(<<1, 1>>, <<locFoo, locMain>>, [k \in {"object"} |-> <<"T2">>])}

(***************************************************************************)
(* Specification of the flame graph builder: a profile is decoded sample   *)
(* by sample, and BuildFlameGraphTree is called on it with any index.      *)
(***************************************************************************)
InitFlame ==
    /\ p \in {Profile(CPUTypes, <<>>), Profile(HeapTypes, <<>>)}
    /\ oldP = NoProfile
    /\ res = NoResult
    /\ ServerStarted("darwin")

\* The result of a request is serialized and discarded before the next one.
Discard ==
    /\ res # NoResult
    /\ res' = NoResult
    /\ UNCHANGED <<p, oldP, pmVars>>

AddFlameSample ==
    /\ res = NoResult
    /\ Len(p.Sample) < MaxSamples
    /\ \E s \in FlameSamples : p' = [p EXCEPT !.Sample = Append(@, s)]
    /\ UNCHANGED <<oldP, res, pmVars>>

CallBuildFlameGraphTree ==
    /\ res = NoResult
    /\ \E valueIndex \in -1..Len(p.SampleType) :
          \E r \in BuildFlameGraphTree(p, valueIndex) :
          res' = [op |-> "flame", valueIndex |-> valueIndex, err |-> r.err, tree |-> r.tree]
    /\ UNCHANGED <<p, oldP, pmVars>>

NextFlame == AddFlameSample \/ CallBuildFlameGraphTree \/ Discard

SpecFlame == InitFlame /\ [][NextFlame]_vars

FlameDone == res.op = "flame" /\ ~res.err

\* Sum of the values at valueIndex of the samples whose value there is not 0.
NonZeroSampleTotal(prof, valueIndex) ==
    SumSeq([k \in 1..Len(prof.Sample) |-> prof.Sample[k].Value[valueIndex + 1]])

NodeChildrenValue(tree, q) ==
    SumSeq([k \in 1..Len(tree[q].Children) |-> tree[Append(q, tree[q].Children[k])].Value])

\* C1: in the returned tree every node, the root included, has
\* value = selfValue + the sum of the values of its children in that tree.
C1_NodeValueIsSelfPlusChildren ==
    FlameDone =>
        \A q \in DOMAIN res.tree :
            res.tree[q].Value = res.tree[q].SelfValue + NodeChildrenValue(res.tree, q)

\* C2: the root value of the returned tree is the sum of Value[valueIndex]
\* over the samples whose value at that index is non-zero.
C2_RootValueIsNonZeroSampleTotal ==
    FlameDone => res.tree[<<>>].Value = NonZeroSampleTotal(p, res.valueIndex)

\* a tree was built from samples of which one has an empty stack and a
\* non-zero value, and another one has a stack
C2_Witness ==
    /\ FlameDone
    /\ \E i, j \in 1..Len(p.Sample) :
          /\ p.Sample[i].Location = <<>>
          /\ p.Sample[i].Value[res.valueIndex + 1] # 0
          /\ p.Sample[j].Location # <<>>
          /\ p.Sample[j].Value[res.valueIndex + 1] # 0
    /\ res.tree[<<>>].Value # 0

(***************************************************************************)
(* Specification of the flat analyzers: a profile is decoded sample by     *)
(* sample and one of the three analyzers is called on it.  The handler     *)
(* passes a positive top_n (handler.go:41-44).                             *)
(***************************************************************************)
MaxTopN == 3

\* the same function as locFoo, called from another line
locFoo2 == Location(4, <<Line(fnFoo, 21)>>)

FlatStacks ==
    {<<>>, <<locMain>>, <<locFoo, locMain>>, <<locFoo2, locMain>>, <<locNilFn, locMain>>}

FlatValues == {<<1, 2>>, <<2, 1>>, <<1, -1>>}

FlatSamples ==
    {Sample(<<2, 1>>, st, NoLabel) : st \in FlatStacks}
    \cup {Sample(v, <<>>, NoLabel) : v \in FlatValues}
    \cup {Sample(<<1, 2>>, <<locMain>>, NoLabel),
          Sample(<<1, -1>>, <<locFoo, locMain>>, NoLabel),
          Sample(<<1, -1>>, <<locNilFn, locMain>>, NoLabel),
          Sample(<<0, 0>>, <<locMain>>, NoLabel),
          Sample(<<1, 2>>, <<locMain>>, [k \in {"type"} |-> <<"T1", "T2">>]),
          Sample(<<2, 1>>, <<locMain>>, [k \in {"type"} |-> <<"T1", "T2">>]),
          Sample(<<1, 2>>, <<locMain>>, [k \in {"object"} |-> <<"T2">>])}

Formats == ReportFormats \cup {"xml"}

InitFlat ==
    /\ p \in {Profile(CPUTypes, <<>>), Profile(HeapTypes, <<>>)}
    /\ oldP = NoProfile
    /\ res = NoResult
    /\ ServerStarted("darwin")

AddFlatSample ==
    /\ res = NoResult
    /\ Len(p.Sample) < MaxSamples
    /\ \E s \in FlatSamples : p' = [p EXCEPT !.Sample = Append(@, s)]
    /\ UNCHANGED <<oldP, res, pmVars>>

CallAnalyze(op) ==
    /\ res = NoResult
    /\ \E topN \in 1..MaxTopN, format \in Formats :
          \E r \in AnalyzeProfile(op, p, topN, format) : res' = r
    /\ UNCHANGED <<p, oldP, pmVars>>

AnalyzeCPUProfile == CallAnalyze("cpu")

AnalyzeHeapProfile == CallAnalyze("heap")

AnalyzeAllocsProfile == CallAnalyze("allocs")

NextFlat ==
    AddFlatSample \/ AnalyzeCPUProfile \/ AnalyzeHeapProfile \/ AnalyzeAllocsProfile \/ Discard

SpecFlat == InitFlat /\ [][NextFlat]_vars

FlatOps == {"cpu", "heap", "allocs"}

\* a report (not an error, not a flame graph) has been returned
FlatDone == res.op \in FlatOps /\ ~res.err /\ res.format \in ReportFormats

\* The map a section of the report is ranked from.
SectionMap(section, prof, valueIndex) ==
    CASE section = "functions" -> funcValue(prof, valueIndex)
      [] section = "allocationSites" -> allocSiteValue(prof, valueIndex)
      [] section = "types" -> typeValue(prof, valueIndex)

SectionRows(section) ==
    CASE section = "functions" -> res.functions
      [] section = "allocationSites" -> res.allocationSites
      [] section = "types" -> res.types

\* the samples that are counted in the total and yield no function
Unattributed(prof, valueIndex) ==
    {k \in 1..Len(prof.Sample) :
        /\ Len(prof.Sample[k].Location) > 0
        /\ \A i \in 1..Len(prof.Sample[k].Location[1].Line) :
              prof.Sample[k].Location[1].Line[i].Function = NilFunction}

UnattributedTotal(prof, valueIndex) ==
    SumSeq([k \in 1..Len(prof.Sample) |->
              IF k \in Unattributed(prof, valueIndex)
              THEN prof.Sample[k].Value[valueIndex + 1] ELSE 0])

KeySum(m) == SumOver(DOMAIN m, m)

\* C3 as stated: the aggregated values of all function keys sum to at most
\* totalValue, and to exactly totalValue when every counted sample yields a
\* function.
C3_KeySumAtMostTotal ==
    FlatDone =>
        /\ KeySum(funcValue(p, res.valueIndex)) <= res.totalValue
        /\ (Unattributed(p, res.valueIndex) = {} =>
              KeySum(funcValue(p, res.valueIndex)) = res.totalValue)

\* C3 amended: the aggregated values of all function keys sum to totalValue
\* minus the values of the counted samples that yield no function; so the
\* sum is at most totalValue when those values are not negative in sum, and
\* equals it when every counted sample yields a function.
C3_KeySumIsTotalMinusUnattributed ==
    FlatDone =>
        /\ KeySum(funcValue(p, res.valueIndex))
              = res.totalValue - UnattributedTotal(p, res.valueIndex)
        /\ (UnattributedTotal(p, res.valueIndex) >= 0 =>
              KeySum(funcValue(p, res.valueIndex)) <= res.totalValue)
        /\ (Unattributed(p, res.valueIndex) = {} =>
              KeySum(funcValue(p, res.valueIndex)) = res.totalValue)

\* a report over a sample that yields a function and a positive-valued one
\* that yields none: the keys sum to less than the total
C3_Witness ==
    /\ FlatDone
    /\ Unattributed(p, res.valueIndex) # {}
    /\ DOMAIN funcValue(p, res.valueIndex) # {}
    /\ 0 < KeySum(funcValue(p, res.valueIndex))
    /\ KeySum(funcValue(p, res.valueIndex)) < res.totalValue

\* rows are the first Len(rows) entries of an order of the keys of m that is
\* non-increasing in value
IsRankedPrefix(rows, m) ==
    /\ \A i \in 1..Len(rows) : rows[i].Key \in DOMAIN m /\ rows[i].Value = m[rows[i].Key]
    /\ \A i, j \in 1..Len(rows) : i < j =>
          (rows[i].Key # rows[j].Key /\ rows[i].Value >= rows[j].Value)
    /\ \A x \in DOMAIN m :
          (\A i \in 1..Len(rows) : rows[i].Key # x) =>
              (\A i \in 1..Len(rows) : rows[i].Value >= m[x])

\* C4: every ranked section lists the first k keys of its keys ordered by
\* non-increasing aggregated value, with k <= min(topN, number of keys).
C4_RowsAreRankedPrefix ==
    FlatDone =>
        \A section \in SectionsOf(res.op) :
            LET m == SectionMap(section, p, res.valueIndex)
                rows == SectionRows(section)
            IN /\ IsRankedPrefix(rows, m)
               /\ Len(rows) <= Min(res.topN, Cardinality(DOMAIN m))

\* a heap report cut to one row per section although functions and types
\* with different values exist
C4_Witness ==
    /\ FlatDone
    /\ res.op = "heap"
    /\ res.topN = 1
    /\ Len(res.functions) = 1
    /\ Len(res.types) = 1
    /\ \E x \in DOMAIN funcValue(p, res.valueIndex) :
          funcValue(p, res.valueIndex)[x] < res.functions[1].Value
    /\ \E x \in DOMAIN typeValue(p, res.valueIndex) :
          typeValue(p, res.valueIndex)[x] < res.types[1].Value

\* The sections a report always shows: the by-type section is left out when
\* the top-ranked type is "unknown", so it counts only for profiles in which
\* every counted sample carries a type.
ShownSections(op, prof, valueIndex) ==
    {section \in SectionsOf(op) :
        section = "types" => "unknown" \notin DOMAIN typeValue(prof, valueIndex)}

\* C5 as stated: a section whose number of keys is at most topN lists every
\* one of its keys.
C5_AllKeysWhenTopNCovers ==
    FlatDone =>
        \A section \in ShownSections(res.op, p, res.valueIndex) :
            LET m == SectionMap(section, p, res.valueIndex)
            IN res.topN >= Cardinality(DOMAIN m) =>
                  {SectionRows(section)[i].Key : i \in 1..Len(SectionRows(section))} = DOMAIN m

\* the position of the first sample that contributes to key x of a section
FirstSeen(section, prof, valueIndex, x) ==
    LET Contributes(k) ==
            IF section = "types" THEN TypeKey(prof.Sample[k]) = x
            ELSE IF FunctionLines(prof.Sample[k]) = {} THEN FALSE
            ELSE IF section = "functions" THEN FuncKey(prof.Sample[k]) = x
            ELSE SiteKey(prof.Sample[k]) = x
        mine == {k \in 1..Len(prof.Sample) :
                    Counted(prof.Sample[k], valueIndex) /\ Contributes(k)}
    IN CHOOSE k \in mine : \A j \in mine : k <= j

\* C6 as stated: keys with equal aggregated value are listed in the order
\* in which their first contributing samples occur in the profile.
C6_TiesInFirstSeenOrder ==
    FlatDone =>
        \A section \in SectionsOf(res.op) :
            LET rows == SectionRows(section)
            IN \A i, j \in 1..Len(rows) :
                  (i < j /\ rows[i].Value = rows[j].Value) =>
                      FirstSeen(section, p, res.valueIndex, rows[i].Key)
                          < FirstSeen(section, p, res.valueIndex, rows[j].Key)

(***************************************************************************)
(* Specification of the leak detector: an old and a new heap snapshot are  *)
(* decoded sample by sample and DetectPotentialMemoryLeaks is called on    *)
(* the pair.  One initial state starts from a new snapshot with more types *)
(* than the default limit.                                                 *)
(***************************************************************************)
\* inuse_space is declared with another unit, and another type has bytes
BadTypes == <<ValueType("inuse_space", "count"), ValueType("alloc_space", "bytes")>>

TypeLabelOf(t) == [k \in {"type"} |-> <<t>>]

\* labels with several values, with both keys, and with neither key
BothLabels == [k \in {"type", "object"} |-> IF k = "type" THEN <<"T1", "T9">> ELSE <<"T2">>]

ObjectLabels == [k \in {"object"} |-> <<"T2", "T3">>]

OtherLabel == [k \in {"thread"} |-> <<"main">>]

LeakSamples ==
    {Sample(<<10, 1000>>, <<locMain>>, BothLabels),
     Sample(<<20, 2000>>, <<locMain>>, TypeLabelOf("T1")),
     Sample(<<10, 1000>>, <<locMain>>, ObjectLabels),
     Sample(<<20, 2000>>, <<locMain>>, NoLabel),
     Sample(<<10, 1000>>, <<>>, TypeLabelOf("T1")),
     Sample(<<0, 0>>, <<locMain>>, OtherLabel),
     Sample(<<0, -1000>>, <<locMain>>, TypeLabelOf("T1"))}

WideTypeNames ==
    <<"W01", "W02", "W03", "W04", "W05", "W06", "W07", "W08", "W09", "W10", "W11">>

\* a snapshot with eleven types of pairwise different sizes
WideProfile ==
    Profile(HeapTypes,
            [i \in 1..Len(WideTypeNames) |->
                Sample(<<i, 1000 * i>>, <<locMain>>, TypeLabelOf(WideTypeNames[i]))])

\* threshold * 100 of the calls of the model: 0.10 and 2.00 are the
\* thresholds of TestDetectPotentialMemoryLeaks
Thresholds == {-10, 0, 10, 100, 200}

\* the limits of the calls of the model
Limits == {-1, 0, 1, 2}

InitLeak ==
    /\ \/ /\ oldP \in {Profile(HeapTypes, <<>>), Profile(BadTypes, <<>>)}
          /\ p \in {Profile(HeapTypes, <<>>), Profile(BadTypes, <<>>)}
       \/ /\ oldP = Profile(HeapTypes, <<>>)
          /\ p = WideProfile
    /\ res = NoResult
    /\ ServerStarted("darwin")

AddOldSample ==
    /\ res = NoResult
    /\ Len(oldP.Sample) + Len(p.Sample) < MaxLeakSamples
    /\ \E s \in LeakSamples : oldP' = [oldP EXCEPT !.Sample = Append(@, s)]
    /\ UNCHANGED <<p, res, pmVars>>

AddNewSample ==
    /\ res = NoResult
    /\ Len(oldP.Sample) + Len(p.Sample) < MaxLeakSamples
    /\ \E s \in LeakSamples : p' = [p EXCEPT !.Sample = Append(@, s)]
    /\ UNCHANGED <<oldP, res, pmVars>>

CallDetectPotentialMemoryLeaks ==
    /\ res = NoResult
    /\ \E thresholdPct \in Thresholds, limit \in Limits :
          \E r \in DetectPotentialMemoryLeaks(oldP, p, thresholdPct, limit) : res' = r
    /\ UNCHANGED <<p, oldP, pmVars>>

\* the heap analyzer run on the new snapshot
AnalyzeHeapSnapshot ==
    /\ res = NoResult
    /\ \E r \in AnalyzeProfile("heap", p, MaxTopN, "text") : res' = r
    /\ UNCHANGED <<p, oldP, pmVars>>

NextLeak ==
    AddOldSample \/ AddNewSample \/ CallDetectPotentialMemoryLeaks \/ AnalyzeHeapSnapshot \/ Discard

SpecLeak == InitLeak /\ [][NextLeak]_vars

LeakDone == res.op = "leak" /\ ~res.err

(***************************************************************************)
(* Properties of the leak detector.                                        *)
(***************************************************************************)
\* bytes in use by type of the old and of the new snapshot of the state
OldBytes == LeakMemory(oldP, LeakValueIndex(oldP.SampleType))

NewBytes == LeakMemory(p, LeakValueIndex(p.SampleType))

OldBytesOf(t) == IF t \in DOMAIN OldBytes THEN OldBytes[t] ELSE 0

\* the types counted as leak candidates by the call
Candidates == {res.growthStats[i].Type : i \in 1..Len(res.growthStats)}

\* the threshold in force, in percent: 0.10 when the caller gives none
ThresholdInForce == IF res.thresholdPct <= 0 THEN 10 ELSE res.thresholdPct

\* growthPercent >= pct for a type that went from old to new bytes:
\* 100 * (new - old) / old when old > 0; without an old value 100 for a
\* value that grew and 0 otherwise
GrowthAtLeast(old, new, pct) ==
    IF old > 0 THEN 100 * (new - old) >= pct * old
    ELSE IF new - old > 0 THEN 100 >= pct
    ELSE 0 >= pct

\* the snapshots of the scenario: one type at 1000 bytes, then at 2000
IsScenario ==
    /\ DOMAIN OldBytes = {"T1"} /\ OldBytes["T1"] = 1000
    /\ DOMAIN NewBytes = {"T1"} /\ NewBytes["T1"] = 2000

\* C7: a type is a leak candidate exactly when it occurs in the by-type
\* aggregate of the new profile and its growthPercent is at least
\* threshold * 100; every candidate is counted once; with old 1000 and new
\* 2000 a threshold of 0.10 gives exactly one candidate, of growth 1000 and
\* growthPercent 100, and a threshold of 2.00 gives none.
C7_CandidateIffGrowthAtLeastThreshold ==
    LeakDone =>
        /\ Cardinality(Candidates) = Len(res.growthStats)
        /\ \A t \in DOMAIN NewBytes \cup Candidates :
              t \in Candidates <=>
                  /\ t \in DOMAIN NewBytes
                  /\ GrowthAtLeast(OldBytesOf(t), NewBytes[t], ThresholdInForce)
        /\ IsScenario /\ res.thresholdPct = 10 =>
              /\ Len(res.growthStats) = 1
              /\ res.growthStats[1].Growth = 1000
              /\ res.growthStats[1].GrowthPercent[1] = 100 * res.growthStats[1].GrowthPercent[2]
        /\ IsScenario /\ res.thresholdPct = 200 =>
              /\ res.growthStats = <<>>
              /\ res.report = "none"

C7_Witness ==
    /\ LeakDone
    /\ IsScenario
    /\ res.thresholdPct = 10
    /\ Len(res.growthStats) = 1
    /\ res.growthStats[1].Type = "T1"

\* the limit in force: 10 when the caller gives none
LimitInForce == IF res.limit <= 0 THEN 10 ELSE res.limit

RowTypes == {res.rows[i].Type : i \in 1..Len(res.rows)}

\* C8: the rows of the report are leak candidates in non-increasing order
\* of growth, as many as the limit allows (a limit <= 0 means 10), each
\* candidate at most once, and no candidate that is left out grew by more
\* than a listed one.
C8_RowsAreTopCandidatesByGrowth ==
    LeakDone =>
        /\ Len(res.rows) = Min(LimitInForce, Cardinality(Candidates))
        /\ \A i, j \in 1..Len(res.rows) : i < j => res.rows[i].Growth >= res.rows[j].Growth
        /\ Cardinality(RowTypes) = Len(res.rows)
        /\ \A i \in 1..Len(res.rows) :
              /\ res.rows[i].Type \in Candidates
              /\ res.rows[i].Growth = NewBytes[res.rows[i].Type] - OldBytesOf(res.rows[i].Type)
        /\ \A t \in Candidates \ RowTypes : \A i \in 1..Len(res.rows) :
              NewBytes[t] - OldBytesOf(t) <= res.rows[i].Growth

C8_Witness ==
    /\ LeakDone
    /\ res.limit <= 0
    /\ Cardinality(Candidates) > 10
    /\ Len(res.rows) = 10

IsPct(frac, n) == frac[1] = n * frac[2]

\* C9 as stated: a type with old value 0 and positive new value has
\* growthPercent 100; a type with equal old and new value has growthPercent
\* 0 and is left out of the report unless the threshold of the caller is
\* <= 0, in which case it is a candidate.
C9_EqualTypeListedIffNoThreshold ==
    LeakDone =>
        \A t \in DOMAIN NewBytes :
            /\ OldBytesOf(t) = 0 /\ NewBytes[t] > 0 => IsPct(res.growth[t].GrowthPercent, 100)
            /\ OldBytesOf(t) = NewBytes[t] =>
                  /\ IsPct(res.growth[t].GrowthPercent, 0)
                  /\ t \in Candidates <=> res.thresholdPct <= 0

\* C9 (amended): a type with old value 0 and positive new value has
\* growthPercent 100; a type with equal old and new value has growthPercent
\* 0 and is left out of the report whatever the threshold of the caller,
\* a threshold <= 0 being replaced by 0.10.
C9_EqualTypeNeverListed ==
    LeakDone =>
        \A t \in DOMAIN NewBytes :
            /\ OldBytesOf(t) = 0 /\ NewBytes[t] > 0 => IsPct(res.growth[t].GrowthPercent, 100)
            /\ OldBytesOf(t) = NewBytes[t] =>
                  /\ IsPct(res.growth[t].GrowthPercent, 0)
                  /\ t \notin Candidates

C9_Witness ==
    /\ LeakDone
    /\ res.thresholdPct <= 0
    /\ \E t \in DOMAIN NewBytes :
          /\ NewBytes[t] > 0
          /\ OldBytesOf(t) = NewBytes[t]
          /\ t \notin Candidates
    /\ \E t \in DOMAIN NewBytes :
          /\ NewBytes[t] > 0
          /\ OldBytesOf(t) = 0
          /\ t \in Candidates

\* the profile declares a sample type inuse_space with unit bytes
HasInuseBytes(prof) ==
    \E i \in 1..Len(prof.SampleType) :
        prof.SampleType[i].Type = "inuse_space" /\ prof.SampleType[i].Unit = "bytes"

\* C10: the call returns an error, with the empty report, exactly when the
\* old or the new profile has no sample type inuse_space/bytes.
C10_ErrorIffInuseBytesMissing ==
    res.op = "leak" =>
        /\ res.err <=> ~HasInuseBytes(oldP) \/ ~HasInuseBytes(p)
        /\ res.err => res.report = "" /\ res.rows = <<>>
        /\ ~res.err => res.report # ""

C10_Witness ==
    /\ res.op = "leak"
    /\ res.err
    /\ res.report = ""
    /\ HasInuseBytes(oldP)
    /\ ~HasInuseBytes(p)
    /\ Len(p.Sample) > 0

(***************************************************************************)
(* Specification of the analyzers on profiles with any sample types: the   *)
(* sample types of a profile are declared one by one, its samples carry    *)
(* one value per declared type, and one of the four analyzers is called.   *)
(***************************************************************************)
MaxTypes == 3

MaxTypedSamples == 1

\* the sample types a decoded profile can declare in the model
SampleTypes ==
    {ValueType("cpu", "nanoseconds"), ValueType("samples", "count"),
     ValueType("cpu", "count"),
     ValueType("inuse_space", "bytes"), ValueType("inuse_space", "count"),
     ValueType("alloc_space", "bytes"), ValueType("alloc", "bytes"),
     ValueType("allocation", "bytes"), ValueType("goroutines", "count"),
     ValueType("contentions", "count")}

\* the output formats of the calls of the model
TypedFormats == {"text", "json", "flamegraph-json", "xml", ""}

\* a sample on main with one value for every declared sample type
TypedSample(types, v) == Sample([i \in 1..Len(types) |-> v], <<locMain>>, NoLabel)

InitTyped ==
    /\ p = Profile(<<>>, <<>>)
    /\ oldP = NoProfile
    /\ res = NoResult
    /\ ServerStarted("darwin")

AddSampleType ==
    /\ res = NoResult
    /\ p.Sample = <<>>
    /\ Len(p.SampleType) < MaxTypes
    /\ \E st \in SampleTypes : p' = [p EXCEPT !.SampleType = Append(@, st)]
    /\ UNCHANGED <<oldP, res, pmVars>>

AddTypedSample ==
    /\ res = NoResult
    /\ Len(p.Sample) < MaxTypedSamples
    /\ p' = [p EXCEPT !.Sample = Append(@, TypedSample(p.SampleType, 1))]
    /\ UNCHANGED <<oldP, res, pmVars>>

CallAnalyzeTyped ==
    /\ res = NoResult
    /\ \E op \in {"cpu", "heap", "allocs"}, format \in TypedFormats :
          \E r \in AnalyzeProfile(op, p, 1, format) : res' = r
    /\ UNCHANGED <<p, oldP, pmVars>>

AnalyzeGoroutineProfile ==
    /\ res = NoResult
    /\ \E format \in TypedFormats :
          \E r \in AnalyzeGoroutine(p, 1, format) : res' = r
    /\ UNCHANGED <<p, oldP, pmVars>>

NextTyped == AddSampleType \/ AddTypedSample \/ CallAnalyzeTyped \/ AnalyzeGoroutineProfile \/ Discard

SpecTyped == InitTyped /\ [][NextTyped]_vars

Analyzers == {"cpu", "heap", "allocs", "goroutine"}

TypedDone == res.op \in Analyzers

\* the positions (0-based) at which the sample types declare type t, unit u
IndicesOf(types, t, u) ==
    {i - 1 : i \in {j \in 1..Len(types) : types[j].Type = t /\ types[j].Unit = u}}

\* C11: the CPU value index is the index of a type (cpu, nanoseconds) if one
\* is declared; otherwise the index of a type (samples, count) if one is
\* declared; otherwise 0 for exactly one declared type and 1 for two or more.
C11_CPUIndexByPreference ==
    res.op = "cpu" /\ Len(p.SampleType) > 0 =>
        LET cpu == IndicesOf(p.SampleType, "cpu", "nanoseconds")
            samples == IndicesOf(p.SampleType, "samples", "count")
        IN IF cpu # {} THEN res.valueIndex \in cpu
           ELSE IF samples # {} THEN res.valueIndex \in samples
           ELSE IF Len(p.SampleType) = 1 THEN res.valueIndex = 0
           ELSE res.valueIndex = 1

\* the smallest element of a non-empty set of indices
First(S) == CHOOSE i \in S : \A j \in S : i <= j

\* C12: for a non-empty list of sample types the heap value index is the
\* index of a type (inuse_space, bytes) if one is declared; otherwise the
\* index of the first type (alloc_space, bytes) if one is declared;
\* otherwise the index of the last declared sample type.
C12_HeapIndexByPreference ==
    res.op = "heap" /\ Len(p.SampleType) > 0 =>
        LET inuse == IndicesOf(p.SampleType, "inuse_space", "bytes")
            alloc == IndicesOf(p.SampleType, "alloc_space", "bytes")
        IN IF inuse # {} THEN res.valueIndex \in inuse
           ELSE IF alloc # {} THEN res.valueIndex = First(alloc)
           ELSE res.valueIndex = Len(p.SampleType) - 1

C12_Witness ==
    /\ res.op = "heap"
    /\ ~res.err
    /\ Len(p.SampleType) >= 2
    /\ IndicesOf(p.SampleType, "inuse_space", "bytes") = {}
    /\ IndicesOf(p.SampleType, "alloc_space", "bytes") = {}
    /\ IndicesOf(p.SampleType, "inuse_space", "count") # {}
    /\ res.valueIndex = Len(p.SampleType) - 1

\* C13: for a non-empty list of sample types the allocation value index is
\* the index of a type (alloc_space, bytes) if one is declared; otherwise
\* the index of the first type named alloc or allocation with unit bytes;
\* otherwise 0, and then a report in a supported format is still returned
\* without error and names the type declared at index 0.
C13_AllocsIndexByPreference ==
    res.op = "allocs" /\ Len(p.SampleType) > 0 =>
        LET space == IndicesOf(p.SampleType, "alloc_space", "bytes")
            alloc == IndicesOf(p.SampleType, "alloc", "bytes")
                        \cup IndicesOf(p.SampleType, "allocation", "bytes")
        IN IF space # {} THEN res.valueIndex \in space
           ELSE IF alloc # {} THEN res.valueIndex = First(alloc)
           ELSE /\ res.valueIndex = 0
                /\ res.format \in {"text", "markdown", "json"} =>
                      ~res.err /\ res.valueType = p.SampleType[1].Type

C13_Witness ==
    /\ res.op = "allocs"
    /\ Len(p.SampleType) >= 2
    /\ \A i \in 1..Len(p.SampleType) :
          p.SampleType[i].Type \notin {"alloc_space", "alloc", "allocation"}
    /\ res.format = "text"
    /\ ~res.err
    /\ res.valueIndex = 0
    /\ res.valueType = p.SampleType[1].Type
    /\ Len(p.Sample) > 0

\* C14: each of the four analyzers fails to resolve its metric, with an
\* error, exactly when the profile declares no sample types; for every
\* non-empty list of sample types it selects an index of a declared sample
\* type and returns its report without error.
C14_MetricErrorIffNoSampleTypes ==
    TypedDone =>
        IF Len(p.SampleType) = 0
        THEN res.err /\ res.valueIndex = -1
        ELSE /\ res.valueIndex \in 0..(Len(p.SampleType) - 1)
             /\ res.format \in {"text", "markdown", "json"} => ~res.err

C14_Witness ==
    /\ res.op = "goroutine"
    /\ res.format = "text"
    /\ Len(p.SampleType) = 0
    /\ Len(p.Sample) > 0
    /\ res.err

\* the output formats an analyzer has a case for
Supported(op) ==
    IF op = "goroutine" THEN {"text", "markdown", "json"}
    ELSE {"text", "markdown", "json", "flamegraph-json"}

\* the result carries no report: no total, no row, no tree
EmptyResult ==
    /\ res.totalValue = 0
    /\ res.valueType = ""
    /\ res.functions = <<>> /\ res.allocationSites = <<>> /\ res.types = <<>>
    /\ res.stacks = <<>> /\ res.flame = <<>>

\* C19: for a profile whose metric resolves, each of the four analyzers
\* returns an error and an empty result for every output format it has no
\* case for.
C19_UnsupportedFormatIsError ==
    TypedDone /\ Len(p.SampleType) > 0 /\ res.format \notin Supported(res.op) =>
        res.err /\ EmptyResult

C19_Witness ==
    /\ res.op = "goroutine"
    /\ res.format = "flamegraph-json"
    /\ Len(p.SampleType) > 0
    /\ Len(p.Sample) > 0
    /\ res.valueIndex = 0
    /\ res.err
    /\ EmptyResult

\* the value of sample k at the selected index when cond holds, else 0
ValueIf(k, cond) == IF cond THEN p.Sample[k].Value[res.valueIndex + 1] ELSE 0

\* the sum of the values ValueIf gives the samples for which keep[k] holds
SumWhere(keep) == SumSeq([k \in 1..Len(p.Sample) |-> ValueIf(k, keep[k])])

\* sample k has an innermost location and that location yields a function
YieldsFunction(k) ==
    /\ Len(p.Sample[k].Location) > 0
    /\ k \notin Unattributed(p, res.valueIndex)

\* C15: a sample with a value at the selected index whose innermost
\* location yields no function is counted in the grand total, which is the
\* sum over all samples that have a location, and adds nothing to a function
\* key or an allocation-site key: the value of every listed key is the sum
\* over the samples whose innermost location yields that key.
C15_UnattributedCountedInTotalOnly ==
    FlatDone =>
        /\ res.totalValue = SumWhere([k \in 1..Len(p.Sample) |-> Len(p.Sample[k].Location) > 0])
        /\ \A i \in 1..Len(res.functions) :
              res.functions[i].Value =
                  SumWhere([k \in 1..Len(p.Sample) |->
                      YieldsFunction(k) /\ FuncKey(p.Sample[k]) = res.functions[i].Key])
        /\ \A i \in 1..Len(res.allocationSites) :
              res.allocationSites[i].Value =
                  SumWhere([k \in 1..Len(p.Sample) |->
                      YieldsFunction(k) /\ SiteKey(p.Sample[k]) = res.allocationSites[i].Key])
        /\ (\A k \in 1..Len(p.Sample) : ~YieldsFunction(k)) =>
              res.functions = <<>> /\ res.allocationSites = <<>>

C15_Witness ==
    /\ FlatDone
    /\ res.op = "heap"
    /\ \E k \in Unattributed(p, res.valueIndex) : p.Sample[k].Value[res.valueIndex + 1] > 0
    /\ Len(res.functions) = 1
    /\ Len(res.allocationSites) = 1
    /\ res.totalValue > res.functions[1].Value
    /\ res.functions[1].Value > 0

\* the rows of all sections of the report
AllRows == res.functions \o res.allocationSites \o res.types

\* a percentage that is 0 and was not divided by 0
IsZeroPercent(frac) == frac[1] = 0 /\ frac[2] # 0

\* the samples of the profile that have a location sum to 0 at the
\* selected index
TotalsZero == SumWhere([k \in 1..Len(p.Sample) |-> Len(p.Sample[k].Location) > 0]) = 0

\* C20: for a profile without samples, or whose selected metric totals 0,
\* the CPU, heap and allocs analyzers return a report without error, its
\* total is 0 and every listed row has percentage 0.
C20_ZeroTotalGivesZeroedReport ==
    /\ res.op \in FlatOps
    /\ res.format \in {"text", "markdown", "json"}
    /\ (p.Sample = <<>> \/ TotalsZero)
    => /\ ~res.err
       /\ res.totalValue = 0
       /\ \A i \in 1..Len(AllRows) : IsZeroPercent(AllRows[i].Percentage)
       /\ p.Sample = <<>> => AllRows = <<>>

C20_Witness ==
    /\ res.op \in FlatOps
    /\ res.format = "text"
    /\ ~res.err
    /\ p.Sample # <<>>
    /\ TotalsZero
    /\ res.totalValue = 0
    /\ \E i \in 1..Len(res.functions) :
          res.functions[i].Value # 0 /\ IsZeroPercent(res.functions[i].Percentage)

\* C17: BuildFlameGraphTree returns an error and no tree exactly when the
\* value index is negative or not smaller than the number of declared
\* sample types; for every other index it returns a tree, with its root.
C17_ErrorIffIndexOutOfRange ==
    res.op = "flame" =>
        /\ res.err <=> (res.valueIndex < 0 \/ res.valueIndex >= Len(p.SampleType))
        /\ res.err => res.tree = <<>>
        /\ ~res.err => <<>> \in DOMAIN res.tree /\ res.tree[<<>>].Name = "root"

C17_Witness ==
    /\ res.op = "flame"
    /\ Len(p.Sample) > 0
    /\ res.valueIndex = Len(p.SampleType)
    /\ res.err
    /\ res.tree = <<>>

\* the tree was built for a memory-class metric of a profile that declares
\* a companion object-count sample type
MemoryTreeDone ==
    /\ FlameDone
    /\ p.SampleType[res.valueIndex + 1].Unit = "bytes"
    /\ p.SampleType[res.valueIndex + 1].Type
          \in {"inuse_space", "alloc_space", "alloc", "allocation"}
    /\ \E i \in 1..Len(p.SampleType) :
          /\ p.SampleType[i].Type \in {"inuse_objects", "alloc_objects"}
          /\ p.SampleType[i].Unit = "count"

\* the object counts of the samples whose value at the index is not 0
ObjectSum ==
    LET oi == First({i \in 1..Len(p.SampleType) :
                        /\ p.SampleType[i].Type \in {"inuse_objects", "alloc_objects"}
                        /\ p.SampleType[i].Unit = "count"})
    IN SumSeq([k \in 1..Len(p.Sample) |->
                  IF p.Sample[k].Value[res.valueIndex + 1] # 0
                  THEN p.Sample[k].Value[oi] ELSE 0])

NodesHaveAvgSize ==
    \A q \in DOMAIN res.tree :
        res.tree[q].ObjectCount > 0 =>
            res.tree[q].AvgSize = GoDiv(res.tree[q].Value, res.tree[q].ObjectCount)

\* C18 as stated: the root has objectCount equal to the sum of the object
\* counts of the non-zero-valued samples and avgSize equal to root.value
\* divided by it (integer division, for a count that is not 0), and every
\* node with a positive objectCount has avgSize = value / objectCount.
C18_RootObjectCountIsObjectSum ==
    MemoryTreeDone =>
        /\ res.tree[<<>>].ObjectCount = ObjectSum
        /\ ObjectSum # 0 => res.tree[<<>>].AvgSize = GoDiv(res.tree[<<>>].Value, ObjectSum)
        /\ NodesHaveAvgSize

\* C18 (amended): the root has objectCount equal to the sum of the object
\* counts of the non-zero-valued samples when that sum is positive, and
\* avgSize equal to root.value divided by it (integer division); when the
\* sum is not positive the root has objectCount 0 and avgSize 0; every node
\* with a positive objectCount has avgSize = value / objectCount.
C18_RootObjectCountIsPositiveObjectSum ==
    MemoryTreeDone =>
        /\ ObjectSum > 0 =>
              /\ res.tree[<<>>].ObjectCount = ObjectSum
              /\ res.tree[<<>>].AvgSize = GoDiv(res.tree[<<>>].Value, ObjectSum)
        /\ ObjectSum <= 0 =>
              /\ res.tree[<<>>].ObjectCount = 0
              /\ res.tree[<<>>].AvgSize = 0
        /\ NodesHaveAvgSize

C18_Witness ==
    /\ MemoryTreeDone
    /\ Len(p.Sample) = 2
    /\ ObjectSum = 2
    /\ res.tree[<<>>].ObjectCount = 2
    /\ res.tree[<<>>].Value = 3
    /\ res.tree[<<>>].AvgSize = 1
    /\ \E q \in DOMAIN res.tree : q # <<>> /\ res.tree[q].ObjectCount > 0 /\ res.tree[q].AvgSize > 0

\* the type attribution key: the first value of the type label, else the
\* first value of the object label, else "unknown"
TypeRule(s) ==
    IF "type" \in DOMAIN s.Label /\ Len(s.Label["type"]) >= 1 THEN s.Label["type"][1]
    ELSE IF "object" \in DOMAIN s.Label /\ Len(s.Label["object"]) >= 1 THEN s.Label["object"][1]
    ELSE "unknown"

\* the keys TypeRule gives the samples of prof that have a location
RuleKeys(prof) ==
    {TypeRule(prof.Sample[k]) : k \in {j \in 1..Len(prof.Sample) : Len(prof.Sample[j].Location) > 0}}

\* the bytes at index vi of the samples of prof that have a location and
\* the key t
RuleBytes(prof, vi, t) ==
    SumSeq([k \in 1..Len(prof.Sample) |->
              IF Len(prof.Sample[k].Location) > 0 /\ TypeRule(prof.Sample[k]) = t
              THEN prof.Sample[k].Value[vi + 1] ELSE 0])

\* C16: the type key of a sample is the first value of its type label when
\* that has a value, otherwise the first value of its object label when
\* that has a value, otherwise "unknown"; the types of the snapshot diff
\* are these keys of the new profile with the bytes of the old and of the
\* new profile summed by this key, and the by-type rows of the heap report
\* are such keys with the bytes summed by this key.
C16_TypeKeyByLabelRule ==
    /\ LeakDone =>
          /\ DOMAIN res.growth = RuleKeys(p)
          /\ \A i \in 1..Len(res.growthStats) :
                /\ res.growthStats[i].OldValue =
                      RuleBytes(oldP, LeakValueIndex(oldP.SampleType), res.growthStats[i].Type)
                /\ res.growthStats[i].NewValue =
                      RuleBytes(p, LeakValueIndex(p.SampleType), res.growthStats[i].Type)
    /\ res.op = "heap" /\ ~res.err =>
          \A i \in 1..Len(res.types) :
              /\ res.types[i].Key \in RuleKeys(p)
              /\ res.types[i].Value = RuleBytes(p, res.valueIndex, res.types[i].Key)

C16_Witness ==
    /\ LeakDone
    /\ \E k \in 1..Len(oldP.Sample) : oldP.Sample[k].Label = BothLabels
    /\ \E k \in 1..Len(p.Sample) : p.Sample[k].Label = ObjectLabels
    /\ \E i, j \in 1..Len(res.growthStats) :
          /\ res.growthStats[i].Type = "T1"
          /\ res.growthStats[i].OldValue = 1000
          /\ res.growthStats[i].NewValue = 2000
          /\ res.growthStats[j].Type = "T2"

(***************************************************************************)
(* Specification of the session registry (process_manager.go).  The server *)
(* receives open_interactive_pprof and disconnect_pprof_session calls and  *)
(* runs their handlers concurrently; SIGINT or SIGTERM wakes the cleanup   *)
(* goroutine once.  A section of code that runs with pprofMutex held and   *)
(* does not block is one step.  A pprof process is a child that nobody has *)
(* waited for, so its PID is not given to another process while the        *)
(* registry can hold it: PIDs are handed out in order.                     *)
(***************************************************************************)
MaxCalls == 3

\* profile_uri of a call: missing, a local file, a remote URL.
Schemes == {"", "file", "http"}

IsRemote(scheme) == scheme = "http"

\* pid argument of a disconnect call
Pids == {0, 1, 2}

\* The handler of a tool call: its tool, its arguments, its position and its
\* result.
Call(tool, scheme, pid, pc, result) ==
    [tool |-> tool, scheme |-> scheme, pid |-> pid, pc |-> pc, result |-> result]

Finished(tool, scheme, pid, result) == Call(tool, scheme, pid, "done", result)

Return(c, result) == [handler EXCEPT ![c].pc = "done", ![c].result = result]

InitPprof ==
    /\ p = NoProfile
    /\ oldP = NoProfile
    /\ res = NoResult
    /\ \E os \in {"darwin", "linux"} : ServerStarted(os)

\* a lock that anybody can take at any time
MutexIgnored(m) == TRUE

\* sync.Mutex: Lock returns only when nobody holds the mutex.
MutexFree(m) == m = Unlocked

\* a Kill signal after every Interrupt
KillAlways(interrupt) == TRUE

\* err != nil after Signal(os.Interrupt): the handler goes on to Kill
KillNeeded(interrupt) == interrupt = "failed"

\* The server reads an open_interactive_pprof call and runs
\* handleOpenInteractivePprof up to cmd.Start: the download, the lookup of
\* go and the start succeed or fail as the environment decides; on a
\* failure after the download cleanup removes the temporary file.
OpenLaunch ==
    /\ Len(handler) < MaxCalls
    /\ \E scheme \in Schemes :
        LET c == Len(handler) + 1 IN
        IF goos # "darwin"
        THEN /\ handler' = Append(handler, Finished("open", scheme, 0, "unsupported os"))
             /\ UNCHANGED <<process, tempFile>>
        ELSE IF scheme = ""
        THEN /\ handler' = Append(handler, Finished("open", scheme, 0, "bad argument"))
             /\ UNCHANGED <<process, tempFile>>
        ELSE \E outcome \in {"fetch failed", "go not found", "start failed", "started"} :
             IF outcome = "started"
             THEN /\ tempFile' = IF IsRemote(scheme) THEN tempFile \cup {c} ELSE tempFile
                  /\ process' = Append(process,
                         [opener |-> c, file |-> IsRemote(scheme),
                          phase |-> cleanupTask.pc,
                          registered |-> FALSE, terminators |-> <<>>,
                          interrupt |-> "none", kill |-> "none"])
                  /\ handler' = Append(handler,
                         Call("open", scheme, Len(process) + 1, "started", "none"))
             ELSE /\ tempFile' = (IF IsRemote(scheme) /\ outcome # "fetch failed"
                                  THEN tempFile \cup {c} ELSE tempFile) \ {c}
                  /\ handler' = Append(handler, Finished("open", scheme, 0, outcome))
                  /\ UNCHANGED process
    /\ UNCHANGED <<p, oldP, res, goos, runningPprofs, pprofMutex, cleanupTask>>

\* pprofMutex.Lock(); runningPprofs[pid] = cmd.Process; pprofMutex.Unlock()
OpenRegister(c) ==
    /\ handler[c].tool = "open"
    /\ handler[c].pc = "started"
    /\ MutexFree(pprofMutex)
    /\ runningPprofs' = runningPprofs \cup {handler[c].pid}
    /\ process' = [process EXCEPT ![handler[c].pid].registered = TRUE]
    /\ handler' = Return(c, "ok")
    /\ UNCHANGED <<p, oldP, res, goos, pprofMutex, tempFile, cleanupTask>>

\* The server reads a disconnect_pprof_session call and runs
\* handleDisconnectPprofSession: the pid check, then pprofMutex.Lock() and
\* process, exists := runningPprofs[pid]; the mutex is released at once when
\* the PID is not registered.
DisconnectLookup ==
    /\ Len(handler) < MaxCalls
    /\ \E pid \in Pids :
        LET c == Len(handler) + 1 IN
        IF pid <= 0
        THEN /\ handler' = Append(handler, Finished("disconnect", "", pid, "invalid pid"))
             /\ UNCHANGED pprofMutex
        ELSE /\ MutexFree(pprofMutex)
             /\ IF pid \in runningPprofs
                THEN /\ handler' = Append(handler, Call("disconnect", "", pid, "found", "none"))
                     /\ pprofMutex' = c
                ELSE /\ handler' = Append(handler, Finished("disconnect", "", pid, "not found"))
                     /\ UNCHANGED pprofMutex
    /\ UNCHANGED <<p, oldP, res, goos, runningPprofs, process, tempFile, cleanupTask>>

\* delete(runningPprofs, pid); pprofMutex.Unlock()
DisconnectDelete(c) ==
    /\ handler[c].tool = "disconnect"
    /\ handler[c].pc = "found"
    /\ runningPprofs' = runningPprofs \ {handler[c].pid}
    /\ process' = [process EXCEPT ![handler[c].pid].terminators = Append(@, c)]
    /\ pprofMutex' = Unlocked
    /\ handler' = [handler EXCEPT ![c].pc = "interrupt"]
    /\ UNCHANGED <<p, oldP, res, goos, tempFile, cleanupTask>>

\* process.Signal(os.Interrupt); when it is sent the handler calls
\* process.Wait(), of which only the error is logged, and returns
DisconnectInterrupt(c) ==
    /\ handler[c].tool = "disconnect"
    /\ handler[c].pc = "interrupt"
    /\ \E sent \in {"ok", "failed"} :
          /\ process' = [process EXCEPT ![handler[c].pid].interrupt = sent]
          /\ handler' = IF KillNeeded(sent) THEN [handler EXCEPT ![c].pc = "kill"]
                        ELSE Return(c, "ok")
    /\ UNCHANGED <<p, oldP, res, goos, runningPprofs, pprofMutex, tempFile, cleanupTask>>

\* process.Signal(os.Kill), then process.Wait() in the same way
DisconnectKill(c) ==
    /\ handler[c].tool = "disconnect"
    /\ handler[c].pc = "kill"
    /\ \E sent \in {"ok", "failed"} :
          /\ process' = [process EXCEPT ![handler[c].pid].kill = sent]
          /\ handler' = Return(c, IF sent = "failed" THEN "terminate failed" ELSE "ok")
    /\ UNCHANGED <<p, oldP, res, goos, runningPprofs, pprofMutex, tempFile, cleanupTask>>

\* sig := <-sigs
SignalArrives ==
    /\ cleanupTask.pc = "waiting"
    /\ cleanupTask' = [cleanupTask EXCEPT !.pc = "signalled"]
    /\ UNCHANGED <<p, oldP, res, goos, runningPprofs, pprofMutex, process, tempFile, handler>>

\* under the mutex the registry is copied and replaced by an empty map;
\* with nothing to terminate the goroutine returns
CleanupTake ==
    /\ cleanupTask.pc = "signalled"
    /\ MutexFree(pprofMutex)
    /\ cleanupTask' = [pc |-> IF runningPprofs = {} THEN "finished" ELSE "terminating",
                       taken |-> runningPprofs, pending |-> runningPprofs, retry |-> {}]
    /\ process' = [pid \in DOMAIN process |->
                     IF pid \in runningPprofs
                     THEN [process[pid] EXCEPT !.terminators = Append(@, CleanupHolder)]
                     ELSE process[pid]]
    /\ runningPprofs' = {}
    /\ UNCHANGED <<p, oldP, res, goos, pprofMutex, tempFile, handler>>

\* one goroutine per process: p.Signal(os.Interrupt)
CleanupInterrupt(pid) ==
    /\ cleanupTask.pc = "terminating"
    /\ pid \in cleanupTask.pending
    /\ \E sent \in {"ok", "failed"} :
          /\ process' = [process EXCEPT ![pid].interrupt = sent]
          /\ cleanupTask' = [cleanupTask EXCEPT
                                !.pending = @ \ {pid},
                                !.retry = IF sent = "failed" THEN @ \cup {pid} ELSE @]
    /\ UNCHANGED <<p, oldP, res, goos, runningPprofs, pprofMutex, tempFile, handler>>

\* p.Signal(os.Kill) after a failed Interrupt
CleanupKill(pid) ==
    /\ cleanupTask.pc = "terminating"
    /\ pid \in cleanupTask.retry
    /\ \E sent \in {"ok", "failed"} :
          process' = [process EXCEPT ![pid].kill = sent]
    /\ cleanupTask' = [cleanupTask EXCEPT !.retry = @ \ {pid}]
    /\ UNCHANGED <<p, oldP, res, goos, runningPprofs, pprofMutex, tempFile, handler>>

\* wg.Wait() returns
CleanupFinish ==
    /\ cleanupTask.pc = "terminating"
    /\ cleanupTask.pending = {}
    /\ cleanupTask.retry = {}
    /\ cleanupTask' = [cleanupTask EXCEPT !.pc = "finished"]
    /\ UNCHANGED <<p, oldP, res, goos, runningPprofs, pprofMutex, process, tempFile, handler>>

handleOpenInteractivePprof ==
    \/ OpenLaunch
    \/ \E c \in DOMAIN handler : OpenRegister(c)

handleDisconnectPprofSession ==
    \/ DisconnectLookup
    \/ \E c \in DOMAIN handler :
          DisconnectDelete(c) \/ DisconnectInterrupt(c) \/ DisconnectKill(c)

setupSignalHandler ==
    \/ SignalArrives
    \/ CleanupTake
    \/ \E pid \in DOMAIN process : CleanupInterrupt(pid) \/ CleanupKill(pid)
    \/ CleanupFinish

NextPprof ==
    \/ handleOpenInteractivePprof
    \/ handleDisconnectPprofSession
    \/ setupSignalHandler

SpecPprof == InitPprof /\ [][NextPprof]_vars

PprofPids == DOMAIN process

DisconnectCalls == {c \in DOMAIN handler : handler[c].tool = "disconnect"}

\* the call found its PID in the registry
Found(c) ==
    \/ handler[c].pc \in {"found", "interrupt", "kill"}
    \/ handler[c].pc = "done" /\ handler[c].result \in {"ok", "terminate failed"}

\* a signal has reached the process
Signalled(pid) == process[pid].interrupt = "ok" \/ process[pid].kill = "ok"

\* the process was terminated through disconnect_pprof_session, or by the
\* cleanup at the exit of the server
TerminatedByServer(pid) ==
    /\ Signalled(pid)
    /\ \/ \E c \in DisconnectCalls :
             handler[c].pid = pid /\ handler[c].pc = "done" /\ handler[c].result = "ok"
       \/ cleanupTask.pc = "finished" /\ pid \in cleanupTask.taken

\* C21: the temporary file of a remote profile stays in place while its
\* pprof process runs, and is removed once the process has been terminated
\* through disconnect_pprof_session or by the cleanup at server exit.
C21_TempFileRemovedOnTermination ==
    \A pid \in PprofPids :
        process[pid].file =>
            /\ ~Signalled(pid) => process[pid].opener \in tempFile
            /\ TerminatedByServer(pid) => process[pid].opener \notin tempFile

\* C22: disconnect_pprof_session on a registered PID sends Interrupt first,
\* sends Kill only when sending Interrupt failed, and returns an error only
\* when both failed.
C22_InterruptThenKillOnFailure ==
    \A c \in DisconnectCalls :
        LET pr == process[handler[c].pid] IN
        /\ handler[c].pc \in {"found", "interrupt"} =>
              pr.interrupt = "none" /\ pr.kill = "none"
        /\ handler[c].pc = "kill" => pr.interrupt = "failed" /\ pr.kill = "none"
        /\ (handler[c].pc = "done" /\ Found(c)) =>
              /\ pr.interrupt # "none"
              /\ pr.kill # "none" <=> pr.interrupt = "failed"
              /\ handler[c].result = "terminate failed"
                    <=> (pr.interrupt = "failed" /\ pr.kill = "failed")
              /\ handler[c].result = "ok" <=> Signalled(handler[c].pid)

\* a disconnect that succeeded with the Kill signal after Interrupt failed
C22_Witness ==
    \E c \in DisconnectCalls :
        /\ handler[c].pc = "done"
        /\ handler[c].result = "ok"
        /\ process[handler[c].pid].interrupt = "failed"
        /\ process[handler[c].pid].kill = "ok"

\* C28: every registered process is handed to at most one terminator: of
\* the disconnect calls for one PID at most one finds the session, the
\* others get the not-found error, a PID taken by the cleanup is found by
\* no disconnect, and a registered session stays in the registry until one
\* terminator takes it.
C28_OneTerminatorPerProcess ==
    /\ \A pid \in PprofPids :
          /\ Len(process[pid].terminators) <= 1
          /\ pid \in runningPprofs <=>
                (process[pid].registered /\ process[pid].terminators = <<>>)
          /\ pid \in cleanupTask.taken =>
                \A c \in DisconnectCalls : handler[c].pid = pid => ~Found(c)
    /\ \A c1, c2 \in DisconnectCalls :
          (c1 # c2 /\ handler[c1].pid = handler[c2].pid) => ~(Found(c1) /\ Found(c2))
    /\ \A c \in DisconnectCalls :
          (handler[c].pc = "done" /\ ~Found(c)) =>
              handler[c].result \in {"not found", "invalid pid"}

\* two disconnect calls for the PID of a registered process, one of which
\* found the session while the other got the not-found error
C28_Witness ==
    \E c1, c2 \in DisconnectCalls :
        /\ c1 # c2
        /\ handler[c1].pid = handler[c2].pid
        /\ handler[c1].pid \in PprofPids
        /\ process[handler[c1].pid].registered
        /\ process[handler[c1].pid].terminators = <<c1>>
        /\ handler[c1].pc = "done" /\ handler[c1].result = "ok"
        /\ handler[c2].pc = "done" /\ handler[c2].result = "not found"

\* the process was taken out of the registry by a disconnect call
Disconnected(pid) ==
    \E i \in 1..Len(process[pid].terminators) : process[pid].terminators[i] # CleanupHolder

\* C29: once the cleanup has finished, every pprof process that was started
\* before that and not disconnected has been sent Interrupt or Kill, and is
\* not in the registry.
C29_CleanupReachesEveryProcess ==
    cleanupTask.pc = "finished" =>
        \A pid \in PprofPids :
            (process[pid].phase # "finished" /\ ~Disconnected(pid)) =>
                /\ process[pid].interrupt # "none"
                /\ pid \notin runningPprofs

\* the profile without its k-th sample
WithoutSample(prof, k) ==
    [prof EXCEPT !.Sample = SubSeq(@, 1, k - 1) \o SubSeq(@, k + 1, Len(@))]

\* C23: a sample whose value at the selected index is 0 changes nothing in
\* the flame tree: the profile without that sample gives the same trees,
\* whatever the object count and the stack of the sample.
C23_ZeroValuedSampleChangesNothing ==
    FlameDone =>
        \A k \in 1..Len(p.Sample) :
            p.Sample[k].Value[res.valueIndex + 1] = 0 =>
                /\ BuildFlameGraphTree(WithoutSample(p, k), res.valueIndex)
                      = BuildFlameGraphTree(p, res.valueIndex)
                /\ [err |-> FALSE, tree |-> res.tree]
                      \in BuildFlameGraphTree(WithoutSample(p, k), res.valueIndex)

\* a heap tree built from a sample under main and a sample of 0 bytes with
\* two objects and the stack main, foo, bar: the tree has the node main only
C23_Witness ==
    /\ FlameDone
    /\ p.SampleType = HeapTypes
    /\ res.valueIndex = 1
    /\ Len(p.Sample) = 2
    /\ p.Sample[1].Value = <<1, 2>> /\ p.Sample[1].Location = <<locMain>>
    /\ p.Sample[2].Value = <<2, 0>> /\ p.Sample[2].Location = <<locBar, locFoo, locMain>>
    /\ DOMAIN res.tree = {<<>>, <<1>>}
    /\ res.tree[<<>>].ObjectCount = 1

\* the function identity BuildFlameGraphTree gives a location with a line
FrameID(loc) == IF loc.Line[1].Function = NilFunction THEN 0 ELSE loc.Line[1].Function.ID

\* the path of the n outermost frames of a stack, from the outermost down
ChainPath(stack, n) == [i \in 1..n |-> FrameID(stack[Len(stack) + 1 - i])]

\* the profile has one sample, of non-zero value, and every frame of its
\* stack has a function, different from those of the other frames
IsSingleChain ==
    /\ FlameDone
    /\ Len(p.Sample) = 1
    /\ p.Sample[1].Value[res.valueIndex + 1] # 0
    /\ \A i \in 1..Len(p.Sample[1].Location) : Len(p.Sample[1].Location[i].Line) > 0
    /\ \A i, j \in 1..Len(p.Sample[1].Location) :
          i # j => FrameID(p.Sample[1].Location[i]) # FrameID(p.Sample[1].Location[j])

\* C24: for a profile with one sample of non-zero value v whose stack has k
\* frames of pairwise distinct functions, the tree is a root of value v over
\* one chain of k nodes from the outermost frame down to the innermost one,
\* every chain node has value v, the innermost has selfValue v and the
\* others have selfValue 0.
C24_SingleSampleGivesChain ==
    IsSingleChain =>
        LET stack == p.Sample[1].Location
            k == Len(stack)
            v == p.Sample[1].Value[res.valueIndex + 1]
        IN /\ DOMAIN res.tree = {ChainPath(stack, n) : n \in 0..k}
           /\ res.tree[<<>>].Value = v
           /\ \A n \in 0..k :
                 LET q == ChainPath(stack, n) IN
                 /\ n > 0 => res.tree[q].Value = v
                 /\ n > 0 => res.tree[q].SelfValue = (IF n = k THEN v ELSE 0)
                 /\ res.tree[q].Children =
                       (IF n = k THEN <<>> ELSE <<FrameID(stack[k - n])>>)

\* the tempNodes the sample loop of BuildFlameGraphTree has created
CreatedNodes(prof, valueIndex) ==
    FoldSamples(prof, valueIndex, 1,
        [tree |-> (<<>> :> RootTempNode),
         totalSampleValue |-> 0, totalObjectCount |-> 0]).tree

\* C25: no node of the returned tree other than the root has cumulative
\* value 0, and a node created during the walk is left out of the returned
\* tree only if it has selfValue 0 and none of its children is returned.
C25_OnlyEmptyNodesDropped ==
    FlameDone =>
        LET created == CreatedNodes(p, res.valueIndex) IN
        /\ \A q \in DOMAIN res.tree : q # <<>> => res.tree[q].Value # 0
        /\ \A q \in DOMAIN created :
              q \notin DOMAIN res.tree =>
                  /\ created[q].selfValue = 0
                  /\ ChildPaths(created, q) \cap DOMAIN res.tree = {}

\* C26: in the returned tree the children list of every node, at every
\* depth, is ordered by non-increasing value.
C26_ChildrenByNonIncreasingValue ==
    FlameDone =>
        \A q \in DOMAIN res.tree :
            LET kids == res.tree[q].Children IN
            \A i, j \in 1..Len(kids) :
                i < j => res.tree[Append(q, kids[i])].Value >= res.tree[Append(q, kids[j])].Value

\* a tree in which main, below the root, has two children of different
\* values
C26_Witness ==
    /\ FlameDone
    /\ \E q \in DOMAIN res.tree :
          /\ q # <<>>
          /\ Len(res.tree[q].Children) = 2
          /\ res.tree[Append(q, res.tree[q].Children[1])].Value
                > res.tree[Append(q, res.tree[q].Children[2])].Value

\* the frames of a stack that have line information, innermost first
RECURSIVE FramesWithLine(_)
FramesWithLine(stack) ==
    IF stack = <<>> THEN <<>>
    ELSE IF Len(Head(stack).Line) = 0 THEN FramesWithLine(Tail(stack))
    ELSE <<Head(stack)>> \o FramesWithLine(Tail(stack))

\* the samples, of non-zero value, whose innermost frame is the node at q
InnermostAt(q) ==
    {k \in 1..Len(p.Sample) :
        /\ p.Sample[k].Value[res.valueIndex + 1] # 0
        /\ Len(p.Sample[k].Location) > 0
        /\ Len(p.Sample[k].Location[1].Line) > 0
        /\ ChainPath(FramesWithLine(p.Sample[k].Location),
                     Len(FramesWithLine(p.Sample[k].Location))) = q}

\* the first non-empty type label, in profile order, among the samples
\* whose innermost frame is the node at q; "" when there is none
FirstInnermostLabel(q) ==
    LET labelled == {k \in InnermostAt(q) : TypeLabel(p.Sample[k], "") # ""}
    IN IF labelled = {} THEN "" ELSE TypeLabel(p.Sample[First(labelled)], "")

\* C27: in a memory-class flame tree the type of a node is the first
\* non-empty type label, in profile order, among the samples whose innermost
\* frame is that node; a node that is never the innermost frame of a
\* labelled sample has no type.
C27_TypeIsFirstInnermostLabel ==
    (FlameDone /\ IsMemoryProfile(p.SampleType, res.valueIndex)) =>
        \A q \in DOMAIN res.tree :
            q # <<>> => res.tree[q].Type = FirstInnermostLabel(q)

\* C30: for the same profile and the same value index, the totalValue of
\* the flat report equals the root value of the flame tree that
\* BuildFlameGraphTree builds, also for profiles that contain samples with
\* an empty stack.
C30_FlatTotalIsFlameRootValue ==
    FlatDone =>
        \A r \in BuildFlameGraphTree(p, res.valueIndex) :
            ~r.err /\ r.tree[<<>>].Value = res.totalValue

====
